---- MODULE Spec2Model ----
(***************************************************************************)
(* Model of src/server.py: SPARequestHandler (translate_path, do_GET) and  *)
(* run().  A request path is a sequence of tokens: the separators "/",     *)
(* "?", "#" and atomic name tokens ("..", "assets", "favicon.ico",         *)
(* "index.html", "a").  A filesystem location is an absolute path in       *)
(* normal form: the sequence of its components, each a sequence of tokens. *)
(* The static file responder is http.server.SimpleHTTPRequestHandler's     *)
(* do_GET, reached from do_GET at lines 26 and 33; it resolves the         *)
(* handler's path attribute through the overridden translate_path.         *)
(* Requests are plain GETs in origin form (the path starts with one "/"),  *)
(* without conditional headers.                                            *)
(***************************************************************************)
EXTENDS Integers, Sequences, FiniteSets, TLC

VARIABLES fs, pending, pc, path, request, file_path, branch, response,
          opened, inService, unanswered, memo

vars == <<fs, pending, pc, path, request, file_path, branch, response,
          opened, inService, unanswered, memo>>

(* ------------------------------ bounds --------------------------------- *)

\* Largest number of path segments in a generated request path.
MaxSegs == 2

\* Largest number of connections waiting in the listen queue.
MaxPending == 2

(* ------------------------- strings and paths --------------------------- *)

MinOf(S) == CHOOSE x \in S : \A y \in S : x <= y

\* str.split(sep, 1)[0]: the part before the first occurrence of sep.
SplitFirst(s, sep) ==
    LET hits == {i \in 1..Len(s) : s[i] = sep}
    IN  IF hits = {} THEN s ELSE SubSeq(s, 1, MinOf(hits) - 1)

\* str.lstrip(ch): every leading ch removed.
LStrip(s, ch) ==
    LET rest == {i \in 1..Len(s) : s[i] # ch}
    IN  IF rest = {} THEN <<>> ELSE SubSeq(s, MinOf(rest), Len(s))

\* str.startswith(prefix)
StartsWith(s, prefix) ==
    /\ Len(s) >= Len(prefix)
    /\ SubSeq(s, 1, Len(prefix)) = prefix

\* str.split("/"): the components between the slashes (empty ones kept).
RECURSIVE SplitSlash(_)
SplitSlash(s) ==
    LET head == SplitFirst(s, "/")
    IN  IF Len(head) = Len(s) THEN <<s>>
        ELSE <<head>> \o SplitSlash(SubSeq(s, Len(head) + 2, Len(s)))

\* posixpath.normpath of an absolute path, on its components: empty and "."
\* components are skipped, ".." removes the component before it and is
\* dropped at the filesystem root.
RECURSIVE NormComps(_, _)
NormComps(comps, acc) ==
    IF comps = <<>> THEN acc
    ELSE LET c == Head(comps) IN
         IF c = <<>> \/ c = <<".">> THEN NormComps(Tail(comps), acc)
         ELSE IF c = <<"..">>
              THEN NormComps(Tail(comps),
                             IF acc = <<>> THEN <<>>
                             ELSE SubSeq(acc, 1, Len(acc) - 1))
              ELSE NormComps(Tail(comps), Append(acc, c))

\* The working directory of the server process, the serving root.
Cwd == << <<"srv">> >>

\* os.path.abspath(rel): normpath(join(getcwd(), rel)); an absolute rel
\* replaces the working directory in the join.
abspath(rel) ==
    IF StartsWith(rel, <<"/">>) THEN NormComps(SplitSlash(rel), <<>>)
    ELSE NormComps(Cwd \o SplitSlash(rel), <<>>)

\* SPARequestHandler.translate_path
translate_path(p) ==
    LET stripped == SplitFirst(SplitFirst(p, "?"), "#")
        rel      == LStrip(stripped, "/")
        rel_path == IF rel = <<>> THEN <<"index.html">> ELSE rel
    IN  abspath(rel_path)

(* ---------------------------- filesystem ------------------------------- *)

IndexLoc   == Cwd \o << <<"index.html">> >>
FaviconLoc == Cwd \o << <<"favicon.ico">> >>
PageLoc    == Cwd \o << <<"a">> >>
AssetsLoc  == Cwd \o << <<"assets">> >>
AssetLoc   == AssetsLoc \o << <<"a">> >>
OutsideLoc == << <<"a">> >>

FsLocs == {IndexLoc, FaviconLoc, PageLoc, AssetsLoc, AssetLoc, OutsideLoc}

\* The filesystems the server may be started on: every location is absent,
\* a readable regular file or a directory; a file lives in a directory.
FsStates ==
    {f \in [FsLocs -> {"absent", "file", "dir"}] :
        /\ f[FaviconLoc] # "dir"
        /\ f[AssetsLoc] # "file"
        /\ f[AssetLoc] # "dir"
        /\ f[OutsideLoc] # "dir"
        /\ (f[AssetLoc] = "file" => f[AssetsLoc] = "dir")}

\* What a stat of loc finds: the filesystem root and the working directory
\* are directories; a location the model does not track is absent.
Kind(f, loc) ==
    IF loc = <<>> \/ loc = Cwd THEN "dir"
    ELSE IF loc \in FsLocs THEN f[loc]
    ELSE "absent"

\* os.path.exists: a stat that succeeds (an unreadable file exists too).
exists(f, loc) == Kind(f, loc) # "absent"

isdir(f, loc) == Kind(f, loc) = "dir"

\* open(path, 'rb') succeeds.
CanOpen(f, loc) == Kind(f, loc) = "file"

(* ----------------------------- responses ------------------------------- *)

NoResponse == [status |-> 0, kind |-> "none", of |-> <<>>, location |-> <<>>]

\* 200 with the bytes of the file at loc (each file has its own bytes).
FileResponse(loc) ==
    [status |-> 200, kind |-> "bytes", of |-> loc, location |-> <<>>]

\* send_error(404, "File not found")
NotFound == [status |-> 404, kind |-> "error", of |-> <<>>, location |-> <<>>]

Redirect(url) ==
    [status |-> 301, kind |-> "redirect", of |-> <<>>, location |-> url]

Listing(loc) ==
    [status |-> 200, kind |-> "listing", of |-> loc, location |-> <<>>]

(* ------------------------------ requests ------------------------------- *)

SegNames == {"..", "assets", "favicon.ico", "index.html", "a"}

SegLists == UNION {[1..n -> SegNames] : n \in 0..MaxSegs}

RECURSIVE JoinSegs(_)
JoinSegs(segs) ==
    IF segs = <<>> THEN <<>>
    ELSE <<"/", Head(segs)>> \o JoinSegs(Tail(segs))

\* Query-string and fragment suffixes of a request path.
Suffixes == {<<>>, <<"?", "a">>, <<"#", "a">>, <<"?", "a", "#", "a">>}

\* Paths without query or fragment: "/", "/s1/.../sn" and "/s1/.../sn/".
BasePaths ==
    {<<"/">>} \cup {JoinSegs(s) : s \in SegLists \ {<<>>}}
              \cup {JoinSegs(s) \o <<"/">> : s \in SegLists \ {<<>>}}

Requests == {b \o s : b \in BasePaths, s \in Suffixes}

\* The path attribute the fallback writes (do_GET line 32).
EntryPath == <<"/", "index.html">>

\* translate_path on every value the handler's path attribute can take,
\* computed once.
TranslateTable == [p \in Requests \cup {EntryPath} |-> translate_path(p)]

\* The static file responder applied to the handler's path attribute p:
\* SimpleHTTPRequestHandler.do_GET / send_head with translate_path
\* overridden.  A directory is redirected to its slash form, or answered
\* with its index.html or a listing; a file that cannot be opened is 404.
StaticResponder(p, f) ==
    LET loc     == TranslateTable[p]
        urlpath == SplitFirst(SplitFirst(p, "?"), "#")
        index   == loc \o << <<"index.html">> >>
    IN  IF isdir(f, loc)
        THEN IF urlpath = <<>> \/ urlpath[Len(urlpath)] # "/"
             THEN Redirect(urlpath \o <<"/">>)
             ELSE IF Kind(f, index) \in {"file", "locked"}
                  THEN IF CanOpen(f, index) THEN FileResponse(index)
                       ELSE NotFound
                  ELSE Listing(loc)
        ELSE IF CanOpen(f, loc) THEN FileResponse(loc) ELSE NotFound

(* ------------------------------ routing -------------------------------- *)

\* loc is the serving root or lies below it.
UnderRoot(loc) == StartsWith(loc, Cwd)

\* Variant: directories pass the existence check too.
IsExistingAny(f, loc) == exists(f, loc)

\* Variant: the existence check also confines the path to the root.
IsExistingFileUnderRoot(f, loc) ==
    exists(f, loc) /\ ~isdir(f, loc) /\ UnderRoot(loc)

\* do_GET line 25: the resolved path exists and is not a directory.
IsExistingFile(f, loc) == exists(f, loc) /\ ~isdir(f, loc)

\* Variant: only the asset prefix is reserved.
IsReservedPrefixOnly(p) == StartsWith(p, <<"/", "assets", "/">>)

\* do_GET line 28, on the handler's path attribute as received.
IsReserved(p) ==
    \/ StartsWith(p, <<"/", "assets", "/">>)
    \/ p = <<"/", "favicon.ico">>

\* Variant: the reserved check comes before the existence check.
DecideReservedFirst(p, f) ==
    IF IsReserved(p) THEN "reserved"
    ELSE IF IsExistingFile(f, translate_path(p)) THEN "file"
    ELSE "fallback"

\* Variant: every path that is no existing file gets the 404.
DecideGeneric404(p, f) ==
    IF IsExistingFile(f, translate_path(p)) THEN "file" ELSE "reserved"

\* The branch do_GET takes for path attribute p on filesystem f.
Decide(p, f) ==
    IF IsExistingFile(f, TranslateTable[p]) THEN "file"
    ELSE IF IsReserved(p) THEN "reserved"
    ELSE "fallback"

\* do_GET as a whole on a filesystem that does not change under it: the
\* response to a GET of p.
do_GET(p, f) ==
    IF Decide(p, f) = "file" THEN StaticResponder(p, f)
    ELSE IF Decide(p, f) = "reserved" THEN NotFound
    ELSE StaticResponder(EntryPath, f)

(* ------------------------------- state --------------------------------- *)

NoMemo == [path |-> <<>>, response |-> NoResponse]

Init ==
    /\ fs \in FsStates
    /\ pending = 0
    /\ pc = "idle"
    /\ path = <<>>
    /\ request = <<>>
    /\ file_path = <<>>
    /\ branch = "none"
    /\ response = NoResponse
    /\ opened = "none"
    /\ inService = 0
    /\ unanswered = 0
    /\ memo = NoMemo

\* A client connects while the server waits in serve_forever and nobody
\* else is queued.
ConnectIdle ==
    /\ pc = "idle"
    /\ pending = 0
    /\ pending' = 1
    /\ UNCHANGED <<fs, pc, path, request, file_path, branch, response,
                   opened, inService, unanswered, memo>>

\* Variant: a connection is accepted while a request is still in service.
AcceptConnThreaded ==
    /\ pending > 0
    /\ inService < 2
    /\ pending' = pending - 1
    /\ inService' = inService + 1
    /\ pc' = "reading"
    /\ UNCHANGED <<fs, path, request, file_path, branch, response, opened,
                   unanswered, memo>>

\* serve_forever: the loop takes the next queued connection and constructs
\* the handler for it; it does so only between two requests.
AcceptConn ==
    /\ pc = "idle"
    /\ pending > 0
    /\ pending' = pending - 1
    /\ inService' = inService + 1
    /\ pc' = "reading"
    /\ UNCHANGED <<fs, path, request, file_path, branch, response, opened,
                   unanswered, memo>>

\* The request line is read and parsed: the handler's path attribute is
\* the path as received, and do_GET is entered.
ReadRequest(p) ==
    /\ pc = "reading"
    /\ path' = p
    /\ request' = p
    /\ unanswered' = unanswered + 1
    /\ pc' = "routing"
    /\ UNCHANGED <<fs, pending, file_path, branch, response, opened,
                   inService, memo>>

\* do_GET lines 24-26, up to the call of the static file responder.
RouteExisting ==
    /\ pc = "routing"
    /\ Decide(path, fs) = "file"
    /\ file_path' = TranslateTable[path]
    /\ branch' = "file"
    /\ pc' = "static"
    /\ UNCHANGED <<fs, pending, path, request, response, opened, inService,
                   unanswered, memo>>

\* do_GET lines 24-25 and 28-30: reserved and not an existing file.
RouteReserved ==
    /\ pc = "routing"
    /\ Decide(path, fs) = "reserved"
    /\ file_path' = TranslateTable[path]
    /\ branch' = "reserved"
    /\ response' = NotFound
    /\ unanswered' = unanswered - 1
    /\ pc' = "done"
    /\ UNCHANGED <<fs, pending, path, request, opened, inService, memo>>

\* Variant: the fallback does not rewrite the path attribute.
RouteFallbackNoRewrite ==
    /\ pc = "routing"
    /\ Decide(path, fs) = "fallback"
    /\ file_path' = TranslateTable[path]
    /\ branch' = "fallback"
    /\ pc' = "static"
    /\ UNCHANGED <<fs, pending, path, request, response, opened, inService,
                   unanswered, memo>>

\* Variant: the fallback keeps a copy of the entry document at the
\* requested location, so that state builds up from request to request.
RouteFallbackCaching ==
    /\ pc = "routing"
    /\ Decide(path, fs) = "fallback"
    /\ file_path' = TranslateTable[path]
    /\ branch' = "fallback"
    /\ path' = EntryPath
    /\ pc' = "static"
    /\ fs' = IF TranslateTable[path] \in FsLocs
                  /\ fs[TranslateTable[path]] = "absent"
             THEN [fs EXCEPT ![TranslateTable[path]] = "file"]
             ELSE fs
    /\ UNCHANGED <<pending, request, response, opened, inService,
                   unanswered, memo>>

\* do_GET lines 24-25, 28 and 32-33, up to the call of the responder.
RouteFallback ==
    /\ pc = "routing"
    /\ Decide(path, fs) = "fallback"
    /\ file_path' = TranslateTable[path]
    /\ branch' = "fallback"
    /\ path' = EntryPath
    /\ pc' = "static"
    /\ UNCHANGED <<fs, pending, request, response, opened, inService,
                   unanswered, memo>>

\* Variant: when the responder cannot open the file, the router serves
\* the entry document in its place.
ServeStaticSubstituting ==
    /\ pc = "static"
    /\ opened' = Kind(fs, TranslateTable[path])
    /\ IF StaticResponder(path, fs) = NotFound
       THEN /\ path' = EntryPath
            /\ response' = StaticResponder(EntryPath, fs)
       ELSE /\ path' = path
            /\ response' = StaticResponder(path, fs)
    /\ unanswered' = unanswered - 1
    /\ pc' = "done"
    /\ UNCHANGED <<fs, pending, request, file_path, branch, inService,
                   memo>>

\* The static file responder runs on the handler's path attribute and the
\* filesystem as it is now.
ServeStatic ==
    /\ pc = "static"
    /\ response' = StaticResponder(path, fs)
    /\ opened' = Kind(fs, TranslateTable[path])
    /\ unanswered' = unanswered - 1
    /\ pc' = "done"
    /\ UNCHANGED <<fs, pending, path, request, file_path, branch, inService,
                   memo>>

\* The handler returns, the connection is shut down, the handler object
\* with its attributes is released, and the loop goes on.
Release ==
    /\ pc = "done"
    /\ inService' = inService - 1
    /\ pc' = "idle"
    /\ path' = <<>>
    /\ request' = <<>>
    /\ file_path' = <<>>
    /\ branch' = "none"
    /\ response' = NoResponse
    /\ opened' = "none"
    /\ UNCHANGED <<fs, pending, unanswered>>

Finish ==
    /\ Release
    /\ UNCHANGED memo

Next ==
    \/ ConnectIdle
    \/ AcceptConn
    \/ \E p \in Requests : ReadRequest(p)
    \/ RouteExisting
    \/ RouteReserved
    \/ RouteFallback
    \/ ServeStatic
    \/ Finish

\* The server on a filesystem nobody changes, one client at a time.
Spec == Init /\ [][Next]_vars

(* ------------------- a client that repeats a request ------------------- *)

\* Requests a client sends between a recorded request and its repetition.
Interveners ==
    {<<"/">>, <<"/", "a">>, <<"/", "assets", "/", "a">>,
     <<"/", "favicon.ico">>, <<"/", "..", "/", "a">>}

\* The client keeps the response of one request it made.
FinishRecord ==
    /\ Release
    /\ memo = NoMemo
    /\ memo' = [path |-> request, response |-> response]

\* Once it has recorded a response, the client repeats that request or
\* sends one of the intervening requests.
ReplayRequests ==
    IF memo = NoMemo THEN Requests ELSE {memo.path} \cup Interveners

NextReplay ==
    \/ ConnectIdle
    \/ AcceptConn
    \/ \E p \in ReplayRequests : ReadRequest(p)
    \/ RouteExisting
    \/ RouteReserved
    \/ RouteFallback
    \/ ServeStatic
    \/ Finish
    \/ FinishRecord

SpecReplay == Init /\ [][NextReplay]_vars

(* ------------------ an environment that changes files ------------------ *)

\* Another process deletes a file.
EnvRemove(loc) ==
    /\ fs[loc] \in {"file", "locked"}
    /\ fs' = [fs EXCEPT ![loc] = "absent"]
    /\ UNCHANGED <<pending, pc, path, request, file_path, branch, response,
                   opened, inService, unanswered, memo>>

\* Another process takes the read permission of a file away.
EnvLock(loc) ==
    /\ fs[loc] = "file"
    /\ fs' = [fs EXCEPT ![loc] = "locked"]
    /\ UNCHANGED <<pending, pc, path, request, file_path, branch, response,
                   opened, inService, unanswered, memo>>

NextRace ==
    \/ ConnectIdle
    \/ AcceptConn
    \/ \E p \in Requests : ReadRequest(p)
    \/ RouteExisting
    \/ RouteReserved
    \/ RouteFallback
    \/ ServeStatic
    \/ Finish
    \/ \E loc \in FsLocs : EnvRemove(loc)
    \/ \E loc \in FsLocs : EnvLock(loc)

SpecRace == Init /\ [][NextRace]_vars

(* ----------------------- clients that queue up ------------------------- *)

\* A client connects at any time; the listen queue is finite.
Connect ==
    /\ pending < MaxPending
    /\ pending' = pending + 1
    /\ UNCHANGED <<fs, pc, path, request, file_path, branch, response,
                   opened, inService, unanswered, memo>>

NextQueue ==
    \/ Connect
    \/ AcceptConn
    \/ \E p \in Requests : ReadRequest(p)
    \/ RouteExisting
    \/ RouteReserved
    \/ RouteFallback
    \/ ServeStatic
    \/ Finish

\* The steps of the one server thread once a request has been read.
HandlerStep ==
    \/ RouteExisting
    \/ RouteReserved
    \/ RouteFallback
    \/ ServeStatic
    \/ Finish

\* A deployed tree: the entry document and the asset directory are there.
InitQueue ==
    /\ Init
    /\ fs[IndexLoc] = "file"
    /\ fs[AssetsLoc] = "dir"
    /\ fs[PageLoc] = "absent"
    /\ fs[OutsideLoc] = "file"

\* serve_forever runs the handler to its end in the one server thread: a
\* request that was read is routed, answered and finished without waiting
\* for anything but the filesystem.
SpecQueue == InitQueue /\ [][NextQueue]_vars /\ WF_vars(HandlerStep)

(* ------------------------------- claims -------------------------------- *)

\* The request for the entry document, as a client writes it.
IndexRequest == <<"/", "index.html">>

\* A request has been routed: its branch is taken.
Routed == pc \in {"static", "done"}

\* The path starts with "/assets/" or is "/favicon.ico".
ReservedPath(p) ==
    \/ (Len(p) >= 3 /\ p[1] = "/" /\ p[2] = "assets" /\ p[3] = "/")
    \/ p = <<"/", "favicon.ico">>

\* The location the request path resolves to.
Resolved == translate_path(request)

\* Something that is no directory is at the resolved location.
ResolvesToFile == Kind(fs, Resolved) \in {"file", "locked"}

ResolvesToDir == Kind(fs, Resolved) = "dir"

\* The ".." segments of request path p climb above the serving root: at
\* some point more ".." than names have been read.
RECURSIVE Climbs(_, _)
Climbs(comps, depth) ==
    IF comps = <<>> THEN FALSE
    ELSE IF Head(comps) = <<"..">>
         THEN depth = 0 \/ Climbs(Tail(comps), depth - 1)
         ELSE IF Head(comps) = <<>> THEN Climbs(Tail(comps), depth)
              ELSE Climbs(Tail(comps), depth + 1)

ClimbsAbove(p) ==
    Climbs(SplitSlash(SplitFirst(SplitFirst(p, "?"), "#")), 0)

\* C1: a GET whose path resolves to an existing non-directory file takes
\* the existing-file branch with the path attribute untouched, the responder
\* is given exactly the resolved file, and the response is 200 with that
\* file's bytes; this also holds for "/assets/..." and "/favicon.ico".
ExistingFilePassthrough ==
    (Routed /\ ResolvesToFile) =>
        /\ branch = "file"
        /\ file_path = Resolved
        /\ path = request
        /\ (pc = "done" => response = FileResponse(Resolved))

ReservedExistingServed ==
    /\ pc = "done"
    /\ ReservedPath(request)
    /\ response = FileResponse(Resolved)

\* C2: a GET whose original path is reserved and whose resolved path is no
\* existing file ends with the 404; the responder is never called for it
\* and its path attribute is never rewritten to the entry document.
ReservedStrictness ==
    (Routed /\ ReservedPath(request)
            /\ ~ResolvesToFile) =>
        /\ pc = "done"
        /\ branch = "reserved"
        /\ response = NotFound
        /\ opened = "none"
        /\ path = request

FaviconMissing404 ==
    /\ pc = "done"
    /\ request = <<"/", "favicon.ico">>
    /\ fs[IndexLoc] = "file"
    /\ response = NotFound

\* C3: a GET of "/" and a GET of a path that is neither an existing file
\* nor reserved are answered exactly as a GET of "/index.html" is on the
\* same filesystem, and in the fallback branch the path attribute given to
\* the responder is "/index.html".
FallbackEqualsEntry ==
    /\ (Routed /\ branch = "fallback") => path = IndexRequest
    /\ (/\ pc = "done"
        /\ \/ request = <<"/">>
           \/ /\ ~ResolvesToFile
              /\ ~ReservedPath(request))
       => response = do_GET(IndexRequest, fs)

UnknownRouteGetsEntry ==
    /\ pc = "done"
    /\ branch = "fallback"
    /\ request = <<"/", "a", "/", "a">>
    /\ response = FileResponse(IndexLoc)

\* C4: for every path p without query or fragment and every suffix s, the
\* branch taken for p followed by s is the branch taken for p alone.
QueryFragmentInsensitive ==
    Routed =>
        \A b \in BasePaths : \A s \in Suffixes :
            request = b \o s => branch = Decide(b, fs)

DirectoryNotServed ==
    (Routed /\ ResolvesToDir) =>
        /\ branch # "file"
        /\ (ReservedPath(request) =>
              /\ branch = "reserved"
              /\ response = NotFound)
        /\ (~ReservedPath(request) =>
              /\ branch = "fallback"
              /\ path = IndexRequest
              /\ (pc = "done" => response = do_GET(IndexRequest, fs)))
        /\ response.kind # "listing"
        /\ ~(response.kind = "bytes" /\ response.of = Resolved)

DirectoryFallsBack ==
    /\ pc = "done"
    /\ Resolved = AssetsLoc
    /\ isdir(fs, AssetsLoc)
    /\ ~ReservedPath(request)
    /\ response = FileResponse(IndexLoc)

\* C7: on a filesystem nobody changes, a request repeated after any other
\* requests, rewritten ones included, gets the status and body it got when
\* the client recorded it.
RepeatSameResponse ==
    (pc = "done" /\ memo # NoMemo /\ request = memo.path) =>
        response = memo.response

RepeatedFallback ==
    /\ pc = "done"
    /\ memo # NoMemo
    /\ request = memo.path
    /\ branch = "fallback"
    /\ response = FileResponse(IndexLoc)

\* C8: when the file that passed the existence check cannot be opened by
\* the responder (deleted or made unreadable in between), the response is
\* the responder's 404, the path attribute is still the requested one (the
\* entry document is not substituted), and the handler can finish so that
\* the server takes the next connection.
RaceIsDelegatedError ==
    (pc = "done" /\ branch = "file" /\ opened \in {"absent", "locked"}) =>
        /\ response = NotFound
        /\ path = request
        /\ ENABLED Finish

DeletedAfterCheck ==
    /\ pc = "done"
    /\ branch = "file"
    /\ opened = "absent"
    /\ fs[IndexLoc] = "file"

\* C9: a GET whose ".." segments climb above the root and whose resolved
\* path lies outside the root takes the existing-file branch when a file
\* is there, and that outside file is what the responder serves.
TraversalServesOutsideFile ==
    (/\ Routed
     /\ ClimbsAbove(request)
     /\ ~UnderRoot(Resolved)
     /\ ResolvesToFile) =>
        /\ branch = "file"
        /\ file_path = Resolved
        /\ (pc = "done" => response = FileResponse(Resolved))

OutsideFileServed ==
    /\ pc = "done"
    /\ ClimbsAbove(request)
    /\ file_path = OutsideLoc
    /\ ~UnderRoot(file_path)
    /\ response = FileResponse(OutsideLoc)

\* C10: at most one request is in service at any time, a connection is
\* accepted only when no earlier one is in service or unanswered, and every
\* request that was read is eventually answered.
OneRequestAtATime ==
    /\ [](inService <= 1 /\ unanswered <= inService)
    /\ [][inService' > inService => (inService = 0 /\ unanswered = 0)]_vars
    /\ [](unanswered > 0 => <>(unanswered = 0))

AnsweredWhileOthersWait ==
    /\ pc = "done"
    /\ inService = 1
    /\ unanswered = 0
    /\ pending > 0

====
